---------------------------- MODULE Spec2Model ----------------------------
(***************************************************************************)
(* A model of the simple-base64 codec (src/src/lib.rs, src/src/constants.rs)*)
(* Buffers are sequences of bytes (0..255).  Rust slices are 0-based; the  *)
(* model keeps the source's 0-based positions and converts at the point    *)
(* of indexing a TLA+ sequence (1-based).                                  *)
(***************************************************************************)
EXTENDS Integers, Sequences, FiniteSets, TLC

VARIABLES pc,    \* which call of the scenario has been made
          orig,  \* the buffer (or length) the scenario started from
          arg,   \* the argument of the last call
          ret    \* the value (or abort) the last call ended with

vars == <<pc, orig, arg, ret>>

-----------------------------------------------------------------------------
(* Outcomes of a call: a value, a typed error, or an abort (Rust panic).   *)

Ok(v) == [tag |-> "Ok", val |-> v, msg |-> ""]
Err(m) == [tag |-> "Err", val |-> <<>>, msg |-> m]
Panic(m) == [tag |-> "Panic", val |-> <<>>, msg |-> m]
None == [tag |-> "None", val |-> <<>>, msg |-> ""]

-----------------------------------------------------------------------------
(* u8 arithmetic.  Shifts left drop the bits that leave the byte.          *)

Shr(x, k) == x \div (2 ^ k)
Shl8(x, k) == (x * (2 ^ k)) % 256

RECURSIVE BitOp(_, _, _, _)
BitOp(op, a, b, k) ==
    IF k = 0 THEN 0
    ELSE LET x == a % 2
             y == b % 2
             bit == IF op = "or" THEN (IF x + y > 0 THEN 1 ELSE 0)
                    ELSE (IF x + y = 2 THEN 1 ELSE 0)
         IN bit + 2 * BitOp(op, a \div 2, b \div 2, k - 1)

BitOr(a, b) == BitOp("or", a, b, 8)
BitAnd(a, b) == BitOp("and", a, b, 8)

\* seq[from..to) of a 0-based slice, as a sequence
Slice(s, from, to) == [k \in 1..(to - from) |-> s[from + k]]

\* s with s[at..at+Len(q)) overwritten by q (0-based at); caller checks the range
WriteAt(s, at, q) ==
    [k \in 1..Len(s) |-> IF k - 1 >= at /\ k - 1 < at + Len(q) THEN q[k - at] ELSE s[k]]

Zeros(n) == [k \in 1..n |-> 0]

-----------------------------------------------------------------------------
(* constants.rs                                                            *)

\* "ABCDEFGHIJKLMNOPQRSTUVWXYZabcdefghijklmnopqrstuvwxyz0123456789+/"
BASE_64_ENCODING ==
    << 65, 66, 67, 68, 69, 70, 71, 72, 73, 74, 75, 76, 77,
       78, 79, 80, 81, 82, 83, 84, 85, 86, 87, 88, 89, 90,
       97, 98, 99, 100, 101, 102, 103, 104, 105, 106, 107, 108, 109,
       110, 111, 112, 113, 114, 115, 116, 117, 118, 119, 120, 121, 122,
       48, 49, 50, 51, 52, 53, 54, 55, 56, 57, 43, 47 >>

\* "ABCDEFGHIJKLMNOPQRSTUVWXYZabcdefghijklmnopqrstuvwxyz0123456789-_"
BASE_64_ENCODING_URL ==
    [k \in 1..64 |-> IF k = 63 THEN 45 ELSE IF k = 64 THEN 95 ELSE BASE_64_ENCODING[k]]

PADDING_CHAR == 61

\* forward table, addressed 0..63
BASE_64_ENCODING_CHARS == [i \in 0..63 |-> BASE_64_ENCODING[i + 1]]

\* vec![0; 127], then encoding[b] = i for the i-th character b, then the
\* padding character's slot is set to the padding character's own code.
RECURSIVE ReverseFill(_, _, _)
ReverseFill(encoding, char_set, i) ==
    IF i >= Len(char_set) THEN encoding
    ELSE ReverseFill([encoding EXCEPT ![char_set[i + 1]] = i], char_set, i + 1)

compute_reverse_encoding(char_set) ==
    LET encoding == ReverseFill([c \in 0..126 |-> 0], char_set, 0)
    IN [encoding EXCEPT ![PADDING_CHAR] = PADDING_CHAR]

CHARS_BASE_64_ENCODING == compute_reverse_encoding(BASE_64_ENCODING)
CHARS_BASE_64_ENCODING_URL == compute_reverse_encoding(BASE_64_ENCODING_URL)

-----------------------------------------------------------------------------
(* lib.rs: the encoder                                                     *)

bytes_encode_trio(bytes) ==
    LET i == bytes[1]
        first == Shr(i, 2)
        temp == Shl8(BitAnd(i, 3), 4)
        j == bytes[2]
        second == BitOr(Shr(j, 4), temp)
        temp1 == Shl8(BitAnd(j, 15), 2)
        k == bytes[3]
        third == BitOr(Shr(k, 6), temp1)
        fourth == BitAnd(k, 63)
    IN <<first, second, third, fourth>>

encode_trio(bytes) ==
    LET quartet == bytes_encode_trio(bytes)
    IN << BASE_64_ENCODING_CHARS[quartet[1]], BASE_64_ENCODING_CHARS[quartet[2]],
          BASE_64_ENCODING_CHARS[quartet[3]], BASE_64_ENCODING_CHARS[quartet[4]] >>

\* encode_duo with a filler byte whose top bits are set
encode_duo_filler_leaks(bytes) ==
    LET trio == <<bytes[1], bytes[2], 255>>
        quartet == bytes_encode_trio(trio)
    IN << BASE_64_ENCODING_CHARS[quartet[1]], BASE_64_ENCODING_CHARS[quartet[2]],
          BASE_64_ENCODING_CHARS[quartet[3]], PADDING_CHAR >>

encode_duo(bytes) ==
    LET trio == <<bytes[1], bytes[2], 63>>
        quartet == bytes_encode_trio(trio)
    IN << BASE_64_ENCODING_CHARS[quartet[1]], BASE_64_ENCODING_CHARS[quartet[2]],
          BASE_64_ENCODING_CHARS[quartet[3]], PADDING_CHAR >>

encode_uno(bytes) ==
    LET trio == <<bytes[1], 15, 255>>
        quartet == bytes_encode_trio(trio)
    IN << BASE_64_ENCODING_CHARS[quartet[1]], BASE_64_ENCODING_CHARS[quartet[2]],
          PADDING_CHAR, PADDING_CHAR >>

-----------------------------------------------------------------------------
(* f32 arithmetic, as far as encode_calc_byte_size and                     *)
(* decode_calc_byte_size use it.  A finite non-negative f32 is the dyadic  *)
(* rational num / 2^sh; every operation rounds its exact result to 24      *)
(* significant bits, ties to even (IEEE 754 binary32, round-to-nearest).   *)

\* kept in lowest terms, so that an integer value has sh = 0
RECURSIVE F32(_, _)
F32(num, sh) ==
    IF sh > 0 /\ num % 2 = 0 THEN F32(num \div 2, sh - 1) ELSE [num |-> num, sh |-> sh]

\* a / b rounded to an integer, ties to even
RoundDivEven(a, b) ==
    LET f == a \div b
        r == a % b
    IN IF 2 * r > b \/ (2 * r = b /\ f % 2 = 1) THEN f + 1 ELSE f

\* least s >= 0 with p * 2^s / q >= 2^23
RECURSIVE ScaleUp(_, _, _)
ScaleUp(p, q, s) == IF p * (2 ^ s) >= q * (2 ^ 23) THEN s ELSE ScaleUp(p, q, s + 1)

\* least k >= 0 with p / (q * 2^k) < 2^24
RECURSIVE ScaleDown(_, _, _)
ScaleDown(p, q, k) == IF p < q * (2 ^ (24 + k)) THEN k ELSE ScaleDown(p, q, k + 1)

\* the f32 nearest to the rational p / q  (p >= 0, q > 0)
RoundF32(p, q) ==
    IF p = 0 THEN F32(0, 0)
    ELSE IF p >= q * (2 ^ 23)
         THEN LET k == ScaleDown(p, q, 0)
              IN F32(RoundDivEven(p, q * (2 ^ k)) * (2 ^ k), 0)
         ELSE LET s == ScaleUp(p, q, 0)
              IN F32(RoundDivEven(p * (2 ^ s), q), s)

\* usize as f32
F32FromInt(n) == RoundF32(n, 1)

\* x * 2^k and x / 2^k are exact in binary floating point
F32MulPow2(x, k) ==
    IF x.sh >= k THEN F32(x.num, x.sh - k) ELSE F32(x.num * (2 ^ (k - x.sh)), 0)
F32DivPow2(x, k) == IF x.num = 0 THEN x ELSE F32(x.num, x.sh + k)

\* x / d and x * d for a small integer d
F32Div(x, d) == RoundF32(x.num, d * (2 ^ x.sh))
F32Mul(x, d) == RoundF32(x.num * d, 2 ^ x.sh)

\* f32::ceil, f32::floor and `as usize` of a non-negative value
F32Ceil(x) == (x.num + (2 ^ x.sh) - 1) \div (2 ^ x.sh)
F32Floor(x) == x.num \div (2 ^ x.sh)

\* ((bytes.len() as f32 * 4. / 3.) / 4.).ceil() * 4.  as usize
encode_calc_byte_size(length) ==
    LET a == F32FromInt(length)
        b == F32MulPow2(a, 2)
        c == F32Div(b, 3)
        d == F32DivPow2(c, 2)
        e == F32Ceil(d)
    IN e * 4

\* for i in 1..length { if i % 3 == 2 { ... } }: one iteration per call
RECURSIVE EncodeLoop(_, _, _, _)
EncodeLoop(bytes, res, position, i) ==
    IF i >= Len(bytes) THEN [tag |-> "Ok", res |-> res, position |-> position]
    ELSE IF i % 3 = 2
         THEN LET trio == Slice(bytes, i - 2, i + 1)
                  quartet == encode_trio(trio)
              IN IF position + 4 > Len(res)
                 THEN [tag |-> "Panic", res |-> res, position |-> position]
                 ELSE EncodeLoop(bytes, WriteAt(res, position, quartet), position + 4, i + 1)
         ELSE EncodeLoop(bytes, res, position, i + 1)

base64_encode_bytes(bytes) ==
    LET target_length == encode_calc_byte_size(Len(bytes))
        length == Len(bytes)
        loop == EncodeLoop(bytes, Zeros(target_length), 0, 1)
        remaining == length % 3
    IN IF loop.tag = "Panic" THEN Panic("range end index out of range")
       ELSE IF remaining > 0
            THEN LET remaining_bytes == Slice(bytes, length - remaining, length)
                     quartet == IF remaining = 2 THEN encode_duo(remaining_bytes)
                                ELSE encode_uno(remaining_bytes)
                 IN IF target_length < Len(quartet)
                    THEN Panic("attempt to subtract with overflow")
                    ELSE Ok(WriteAt(loop.res, target_length - Len(quartet), quartet))
            ELSE Ok(loop.res)

-----------------------------------------------------------------------------
(* lib.rs: the decoder                                                     *)

CHUNK == 4

\* bytes.iter().position(|&r| r == c).unwrap_or(bytes.len())
PositionOf(bytes, c) ==
    IF \E k \in 1..Len(bytes) : bytes[k] = c
    THEN (CHOOSE k \in 1..Len(bytes) : bytes[k] = c /\ \A h \in 1..(k - 1) : bytes[h] # c) - 1
    ELSE Len(bytes)

\* (real_length as f32 * 3. / 4.).floor() as usize
decode_calc_byte_size(bytes) ==
    LET real_length == PositionOf(bytes, PADDING_CHAR)
        a == F32FromInt(real_length)
        b == F32Mul(a, 3)
        c == F32DivPow2(b, 2)
    IN F32Floor(c)

\* the reverse table is a Vec of 127 entries: a byte above 126 indexes out of it
convert_encoded_bytes(bytes) ==
    IF \E k \in 1..Len(bytes) : bytes[k] >= 127
    THEN Panic("index out of bounds")
    ELSE Ok([k \in 1..Len(bytes) |-> CHARS_BASE_64_ENCODING[bytes[k]]])

decode_quartet(bytes) ==
    LET i == bytes[1]
        j == bytes[2]
        k == bytes[3]
        l == bytes[4]
        first == BitOr(Shl8(i, 2), Shr(j, 4))
        second == BitOr(Shl8(j, 4), BitAnd(Shr(k, 2), 255))
        third == BitAnd(BitOr(Shl8(k, 6), l), 255)
    IN <<first, second, third>>

decode_incomplete(bytes) ==
    LET pad_code == CHARS_BASE_64_ENCODING[PADDING_CHAR]
        pad_pos == PositionOf(bytes, pad_code)
        quartet == WriteAt(Zeros(4), 0, Slice(bytes, 0, pad_pos))
        temp == decode_quartet(quartet)
    IN CASE pad_pos = 4 -> Ok(<<temp[1], temp[2], temp[3]>>)
         [] pad_pos = 3 -> Ok(<<temp[1], temp[2]>>)
         [] pad_pos = 2 -> Ok(<<temp[1]>>)
         [] OTHER -> Err("PaddingError")

\* for i in 1..source_length - CHUNK { if i % CHUNK == modulo_max { ... } }
RECURSIVE DecodeLoop(_, _, _, _)
DecodeLoop(bytes, res, position, i) ==
    LET modulo_max == CHUNK - 1
    IN IF i >= Len(bytes) - CHUNK THEN [tag |-> "Ok", res |-> res, position |-> position]
       ELSE IF i % CHUNK = modulo_max
            THEN LET converted == convert_encoded_bytes(Slice(bytes, i - modulo_max, i + 1))
                 IN IF converted.tag = "Panic" \/ position + 3 > Len(res)
                    THEN [tag |-> "Panic", res |-> res, position |-> position]
                    ELSE DecodeLoop(bytes, WriteAt(res, position, decode_quartet(converted.val)),
                                    position + 3, i + 1)
            ELSE DecodeLoop(bytes, res, position, i + 1)

\* source_length - CHUNK on an input shorter than CHUNK: the subtraction aborts
\* in a build with overflow checks; without them it wraps and the loop's first
\* slice bytes[0..4] aborts on the short buffer.  Both builds abort.
base64_decode_bytes(bytes) ==
    LET target_length == decode_calc_byte_size(bytes)
        source_length == Len(bytes)
    IN IF source_length < CHUNK THEN Panic("attempt to subtract with overflow")
       ELSE LET loop == DecodeLoop(bytes, Zeros(target_length), 0, 1)
                converted == convert_encoded_bytes(Slice(bytes, source_length - CHUNK, source_length))
            IN IF loop.tag = "Panic" THEN Panic("out of range in chunk loop")
               ELSE IF converted.tag = "Panic" THEN converted
               ELSE LET decoded == decode_incomplete(converted.val)
                    IN IF decoded.tag = "Err" THEN decoded
                       ELSE IF target_length < Len(decoded.val)
                            THEN Panic("attempt to subtract with overflow")
                            ELSE Ok(WriteAt(loop.res, target_length - Len(decoded.val), decoded.val))

-----------------------------------------------------------------------------
(* lib.rs: the text wrappers.  A String is its UTF-8 bytes; str::from_utf8 *)
(* accepts exactly the well-formed UTF-8 sequences.                        *)

Cont(s, k) == k <= Len(s) /\ s[k] >= 128 /\ s[k] <= 191

RECURSIVE IsUtf8From(_, _)
IsUtf8From(s, k) ==
    IF k > Len(s) THEN TRUE
    ELSE LET b == s[k]
         IN CASE b <= 127 -> IsUtf8From(s, k + 1)
              [] b >= 194 /\ b <= 223 -> Cont(s, k + 1) /\ IsUtf8From(s, k + 2)
              [] b = 224 -> Cont(s, k + 1) /\ s[k + 1] >= 160 /\ Cont(s, k + 2)
                            /\ IsUtf8From(s, k + 3)
              [] b = 237 -> Cont(s, k + 1) /\ s[k + 1] <= 159 /\ Cont(s, k + 2)
                            /\ IsUtf8From(s, k + 3)
              [] b >= 225 /\ b <= 239 /\ b # 237 ->
                     Cont(s, k + 1) /\ Cont(s, k + 2) /\ IsUtf8From(s, k + 3)
              [] b = 240 -> Cont(s, k + 1) /\ s[k + 1] >= 144 /\ Cont(s, k + 2)
                            /\ Cont(s, k + 3) /\ IsUtf8From(s, k + 4)
              [] b >= 241 /\ b <= 243 -> Cont(s, k + 1) /\ Cont(s, k + 2)
                            /\ Cont(s, k + 3) /\ IsUtf8From(s, k + 4)
              [] b = 244 -> Cont(s, k + 1) /\ s[k + 1] <= 143 /\ Cont(s, k + 2)
                            /\ Cont(s, k + 3) /\ IsUtf8From(s, k + 4)
              [] OTHER -> FALSE

from_utf8(s) == IsUtf8From(s, 1)

base64_encode(str) ==
    LET vec == base64_encode_bytes(str)
    IN IF vec.tag # "Ok" THEN vec
       ELSE IF from_utf8(vec.val) THEN Ok(vec.val) ELSE Err("Utf8Error")

base64_decode(str) ==
    LET decoded_result == base64_decode_bytes(str)
    IN CASE decoded_result.tag = "Ok" ->
                IF from_utf8(decoded_result.val) THEN Ok(decoded_result.val)
                ELSE Err("UTF8 encoding failed")
         [] decoded_result.tag = "Err" -> Err("Decoding failed")
         [] OTHER -> decoded_result

\* .replace("+", "-").replace("/", "_")
UrlReplace(s) == [k \in 1..Len(s) |-> IF s[k] = 43 THEN 45 ELSE IF s[k] = 47 THEN 95 ELSE s[k]]

-----------------------------------------------------------------------------
(* The index arithmetic of base64_encode_bytes for a buffer of a given     *)
(* length, contents left out: the size of the output vector, how far the   *)
(* loop's writes reach, where the tail quartet is written and how many     *)
(* padding characters it carries.  The loop writes one quartet for each i  *)
(* in 1..length-1 with i % 3 = 2, at positions 0, 4, 8, ...; a write       *)
(* res[position..position + 4] beyond the vector aborts.                   *)

EncodeLayout(length) ==
    LET target_length == encode_calc_byte_size(length)
        position == 4 * (length \div 3)
        remaining == length % 3
    IN IF position > target_length
       THEN [tag |-> "Panic", len |-> 0, position |-> 0, tail_at |-> 0, pads |-> 0]
       ELSE IF remaining > 0 /\ target_length < 4
            THEN [tag |-> "Panic", len |-> 0, position |-> 0, tail_at |-> 0, pads |-> 0]
            ELSE [tag |-> "Ok", len |-> target_length, position |-> position,
                  tail_at |-> IF remaining > 0 THEN target_length - 4 ELSE target_length,
                  pads |-> IF remaining = 2 THEN 1 ELSE IF remaining = 1 THEN 2 ELSE 0]

-----------------------------------------------------------------------------
(* Bounds and sampled inputs                                               *)

MaxLen == 4
MaxChunks == 2
SmallLengths == 40
SizeWindow == 16

\* raw bytes: NUL, '>', '?', 'M', 'a', 'n', '}', the two bytes of U+00E1,
\* 0xF4 and 0xFF
SampleBytes == {0, 62, 63, 77, 97, 110, 125, 161, 195, 244, 255}

\* encoded characters: 'T', '9', '=' and a byte beyond the reverse table
SampleChars == {84, 57, 61, 200}

SeqsUpTo(S, n) == UNION {[1..k -> S] : k \in 0..n}

RawInputs == SeqsUpTo(SampleBytes, MaxLen)

\* every input of 0..MaxChunks whole chunks over the sampled characters
EncodedInputs == UNION {[1..(CHUNK * n) -> SampleChars] : n \in 0..MaxChunks}

TailInputs == [1..1 -> 0..255] \cup [1..2 -> 0..255]

Lengths == (0..SmallLengths)
           \cup ((2 ^ 24 - SizeWindow)..(2 ^ 24 + SizeWindow))
           \cup ((2 ^ 25)..(2 ^ 25 + SizeWindow))

-----------------------------------------------------------------------------
(* Scenario 1: a buffer is encoded and the encoding decoded again, through *)
(* the byte API or through the text API (optionally after the '+' -> '-',  *)
(* '/' -> '_' replacement of the URL-safe form).                           *)

Init ==
    /\ pc = "start"
    /\ orig \in RawInputs
    /\ arg = orig
    /\ ret = None

EncodeBytes ==
    /\ pc = "start"
    /\ ret' = base64_encode_bytes(arg)
    /\ pc' = "bytes_encoded"
    /\ UNCHANGED <<orig, arg>>

DecodeBytes ==
    /\ pc = "bytes_encoded"
    /\ ret.tag = "Ok"
    /\ arg' = ret.val
    /\ ret' = base64_decode_bytes(ret.val)
    /\ pc' = "bytes_decoded"
    /\ UNCHANGED orig

EncodeText ==
    /\ pc = "start"
    /\ from_utf8(orig)
    /\ ret' = base64_encode(arg)
    /\ pc' = "text_encoded"
    /\ UNCHANGED <<orig, arg>>

ReplaceUrl ==
    /\ pc = "text_encoded"
    /\ ret.tag = "Ok"
    /\ arg' = ret.val
    /\ ret' = Ok(UrlReplace(ret.val))
    /\ pc' = "text_urlsafe"
    /\ UNCHANGED orig

DecodeText ==
    /\ pc \in {"text_encoded", "text_urlsafe"}
    /\ ret.tag = "Ok"
    /\ arg' = ret.val
    /\ ret' = base64_decode(ret.val)
    /\ pc' = IF pc = "text_urlsafe" THEN "url_decoded" ELSE "text_decoded"
    /\ UNCHANGED orig

Next == EncodeBytes \/ DecodeBytes \/ EncodeText \/ ReplaceUrl \/ DecodeText

Spec == Init /\ [][Next]_vars

(* Scenario 2: base64_decode_bytes on an arbitrary input of whole chunks.  *)

InitDecode ==
    /\ pc = "input"
    /\ orig \in EncodedInputs
    /\ arg = orig
    /\ ret = None

DecodeInput ==
    /\ pc = "input"
    /\ ret' = base64_decode_bytes(arg)
    /\ pc' = "input_decoded"
    /\ UNCHANGED <<orig, arg>>

NextDecode == DecodeInput

SpecDecode == InitDecode /\ [][NextDecode]_vars

(* Scenario 3: the tail quartets of one and two leftover bytes.            *)

InitTail ==
    /\ pc = "tail"
    /\ orig \in TailInputs
    /\ arg = orig
    /\ ret = None

EncodeTail ==
    /\ pc = "tail"
    /\ ret' = IF Len(arg) = 2 THEN encode_duo(arg) ELSE encode_uno(arg)
    /\ pc' = "tail_encoded"
    /\ UNCHANGED <<orig, arg>>

NextTail == EncodeTail

SpecTail == InitTail /\ [][NextTail]_vars

(* Scenario 4: the output size and layout for a buffer of a given length.  *)

InitSize ==
    /\ pc = "length"
    /\ orig \in Lengths
    /\ arg = orig
    /\ ret = None

CalcSize ==
    /\ pc = "length"
    /\ ret' = encode_calc_byte_size(arg)
    /\ pc' = "sized"
    /\ UNCHANGED <<orig, arg>>

LayOut ==
    /\ pc = "length"
    /\ ret' = EncodeLayout(arg)
    /\ pc' = "laid_out"
    /\ UNCHANGED <<orig, arg>>

NextSize == CalcSize \/ LayOut

SpecSize == InitSize /\ [][NextSize]_vars

-----------------------------------------------------------------------------
(* Reference definitions used by the properties                            *)

\* ceil(n / 3) * 4
Rfc4648Length(n) == ((n + 2) \div 3) * 4

\* the four 6-bit fields of the 24-bit group b0 b1 b2
Sextets(b0, b1, b2) ==
    LET n == b0 * 65536 + b1 * 256 + b2
    IN <<n \div 262144, (n \div 4096) % 64, (n \div 64) % 64, n % 64>>

\* RFC 4648 section 4, standard alphabet, padded
RECURSIVE Rfc4648(_)
Rfc4648(b) ==
    IF Len(b) = 0 THEN <<>>
    ELSE IF Len(b) = 1
         THEN LET x == Sextets(b[1], 0, 0)
              IN <<BASE_64_ENCODING[x[1] + 1], BASE_64_ENCODING[x[2] + 1], 61, 61>>
    ELSE IF Len(b) = 2
         THEN LET x == Sextets(b[1], b[2], 0)
              IN <<BASE_64_ENCODING[x[1] + 1], BASE_64_ENCODING[x[2] + 1],
                   BASE_64_ENCODING[x[3] + 1], 61>>
    ELSE LET x == Sextets(b[1], b[2], b[3])
         IN <<BASE_64_ENCODING[x[1] + 1], BASE_64_ENCODING[x[2] + 1],
              BASE_64_ENCODING[x[3] + 1], BASE_64_ENCODING[x[4] + 1]>>
            \o Rfc4648(SubSeq(b, 4, Len(b)))

\* number of '=' at the end of s
RECURSIVE TrailingPads(_)
TrailingPads(s) ==
    IF Len(s) = 0 \/ s[Len(s)] # 61 THEN 0 ELSE 1 + TrailingPads(SubSeq(s, 1, Len(s) - 1))

PadsOf(n) == (3 - (n % 3)) % 3

IsValue(r) == r.tag \in {"Ok", "Err"}

LastChunk(s) == Slice(s, Len(s) - CHUNK, Len(s))

-----------------------------------------------------------------------------
(* Properties                                                              *)

\* C1: round trip.  Decoding the encoding of any byte sequence b returns
\* Ok(b): the same length and the same bytes.
RoundTrip == pc = "bytes_decoded" => ret = Ok(orig)

\* C2: the encoder's output is the RFC 4648 standard-alphabet padded encoding
\* of its input.  For a buffer given by its bytes: the output equals the
\* reference encoding.  For a buffer given by its length: the output has the
\* reference length, the quartet of the k-th full triple lies at 4k..4k+3 and
\* is not overwritten, and the leftover bytes fill the quartet after them.
EncodeIsRfc4648 ==
    /\ pc = "bytes_encoded" => ret = Ok(Rfc4648(orig))
    /\ pc = "laid_out" =>
          /\ ret.tag = "Ok"
          /\ ret.len = Rfc4648Length(orig)
          /\ ret.position = 4 * (orig \div 3)
          /\ ret.tail_at = ret.position

\* C3: length law.  The output of the encoder on a buffer of n bytes has
\* ceil(n / 3) * 4 bytes, and that is the size encode_calc_byte_size computes.
LengthLaw ==
    /\ pc = "sized" => ret = Rfc4648Length(orig)
    /\ pc = "laid_out" => ret.tag = "Ok" /\ ret.len = Rfc4648Length(orig)
    /\ pc = "bytes_encoded" => ret.tag = "Ok" /\ Len(ret.val) = Rfc4648Length(Len(orig))

\* C4: padding count.  The encoder's output ends with exactly
\* (3 - n % 3) % 3 padding characters and holds '=' nowhere else.
PaddingCount ==
    /\ pc = "bytes_encoded" =>
          /\ ret.tag = "Ok"
          /\ TrailingPads(ret.val) = PadsOf(Len(orig))
          /\ \A k \in 1..(Len(ret.val) - PadsOf(Len(orig))) : ret.val[k] # 61
    /\ pc = "laid_out" => ret.tag = "Ok" /\ ret.pads = PadsOf(orig)

\* C5: malformed padding.  An input of a positive number of whole chunks whose
\* first '=' is at position 0 or 1 of the final chunk is refused with
\* PaddingError.
MalformedPaddingRefused ==
    (/\ pc = "input_decoded"
     /\ Len(orig) >= CHUNK
     /\ PositionOf(orig, 61) \in {Len(orig) - 4, Len(orig) - 3})
    => ret = Err("PaddingError")

\* C6: no abort.  On every input of a positive number of whole chunks the
\* decoder ends with a value, Ok or PaddingError.
DecodeNeverAborts ==
    (pc = "input_decoded" /\ Len(orig) >= CHUNK) => IsValue(ret)

\* C7: the empty input.  The decoder ends with a value on the empty buffer:
\* Ok with no bytes, or an error.
EmptyDecodeReturns ==
    (pc = "input_decoded" /\ orig = <<>>)
    => IsValue(ret) /\ (ret.tag = "Ok" => ret.val = <<>>)

\* C8: URL-safe input.  The standard encoding of a text t with '+' replaced by
\* '-' and '/' by '_' decodes to Ok(t), as the unreplaced encoding does.
UrlSafeDecodesLikeStandard ==
    pc = "url_decoded" =>
        /\ ret = Ok(orig)
        /\ ret = base64_decode(base64_encode(orig).val)

\* C9: the tail quartet is that of the zero-filled triple.  encode_duo of
\* b0 b1 is the first three characters of encode_trio of b0 b1 0 and one
\* '='; encode_uno of b0 is the first two characters of encode_trio of
\* b0 0 0 and '=='.
TailIsZeroFilledTriple ==
    pc = "tail_encoded" =>
        IF Len(orig) = 2
        THEN ret = SubSeq(encode_trio(<<orig[1], orig[2], 0>>), 1, 3) \o <<61>>
        ELSE ret = SubSeq(encode_trio(<<orig[1], 0, 0>>), 1, 2) \o <<61, 61>>

\* a two-byte tail whose second byte has all its low bits set has been encoded
TailWitness ==
    pc = "tail_encoded" /\ orig = <<77, 255>> /\ ret = <<84, 102, 56, 61>>

\* C10: the padding sentinel is unambiguous.  No alphabet character has the
\* reverse-table value of '=', so a position of the final quartet reads as
\* padding exactly when the input character there is '='.
SentinelUnambiguous ==
    (/\ pc = "input_decoded"
     /\ Len(orig) >= CHUNK
     /\ convert_encoded_bytes(LastChunk(orig)).tag = "Ok")
    => \A k \in 1..CHUNK :
          LET c == LastChunk(orig)[k]
              pad_code == CHARS_BASE_64_ENCODING[PADDING_CHAR]
          IN /\ (\E h \in 1..64 : BASE_64_ENCODING[h] = c) => CHARS_BASE_64_ENCODING[c] # pad_code
             /\ (convert_encoded_bytes(LastChunk(orig)).val[k] = pad_code) <=> (c = PADDING_CHAR)

=============================================================================
